---- MODULE Spec2Model ----
(***************************************************************************)
(* A model of job_crawler_bot.py: the URL canonicalizer, the fetcher, the  *)
(* career page discoverer, the job link extractor, the posting classifier, *)
(* the dedup store and the crawl orchestrator.                             *)
(*                                                                         *)
(* Strings.  A Python string is modelled as a sequence of tokens.  The     *)
(* URL delimiters ":", "/", "?", "#", "&" and "=" are tokens of their own  *)
(* (one character each); every other token is a word that holds none of    *)
(* them (a scheme, a host with its port, a path segment, a query key or    *)
(* value, a word of text).  What Python decides character by character     *)
(* inside a word (lower(), `k in u`, startswith) is given by the tables    *)
(* Lower, Subs, HttpWords and UtmKeys, which list the answer for every     *)
(* word the model uses.  No keyword of the program holds a delimiter, so   *)
(* a keyword is a substring of a string iff it is one of some word.        *)
(***************************************************************************)
EXTENDS Integers, Sequences, FiniteSets, TLC

VARIABLES
    \* URL canonicalizer (SpecCanon)
    url, once, twice,
    \* fetcher (SpecFetch): the configuration flag, the Selenium globals, the
    \* URL of the call and what the call did
    ENABLE_JS_RENDER, selenium_ready, fp_url, fp_pc, fp_html, net_get, net_render,
    \* posting classifier (SpecClassify): the page, its URL, the phrases its
    \* text was written with, and the verdict
    jp_url, jp_soup, jp_phrases, jp_pc, jp_result,
    \* career page discoverer (SpecDiscover): the homepage, its URL and the
    \* set returned
    dc_site, dc_soup, dc_pc, dc_result,
    \* crawl orchestrator (Spec): the dedup set and its file, the messages the
    \* notification sink accepted, and the locals of crawl_jobs_once
    pc, sent_jobs, store, sink, df, row, career_todo, candidate_job_links,
    link_todo, seen_global, new_count,
    \* history of the current pass: the messages the sink accepted, the rows
    \* the loop reached, the items of the current row whose fetch_page call
    \* failed, whether fetch_page was called again for such an item, the links
    \* whose notification failed in this pass and in the previous one, and
    \* what the latest iteration of the link loop did
    accepted, visited, failed_fetch, retried, failed_now, pending, last

canonVars == <<url, once, twice>>

fetchVars ==
    <<ENABLE_JS_RENDER, selenium_ready, fp_url, fp_pc, fp_html, net_get, net_render>>

classVars == <<jp_url, jp_soup, jp_phrases, jp_pc, jp_result>>

discVars == <<dc_site, dc_soup, dc_pc, dc_result>>

crawlVars ==
    <<pc, sent_jobs, store, sink, df, row, career_todo, candidate_job_links,
      link_todo, seen_global, new_count,
      accepted, visited, failed_fetch, retried, failed_now, pending, last>>

vars == <<canonVars, fetchVars, classVars, discVars, crawlVars>>

(***************************************************************************)
(* Bounds of the model.                                                    *)
(***************************************************************************)
\* the most trailing slashes of an input URL's path
MaxSlashes == 3
\* the most query parameters of an input URL
MaxParams == 2
\* the most phrases a classified page's text is written with
MaxPhrases == 2
\* the most anchors of a homepage given to the career page discoverer
MaxAnchors == 2
\* the most messages for one link the notification sink takes in a run of
\* the model: past it, every send fails
MaxDeliver == 2

(***************************************************************************)
(* Configuration (lines 27-36) and the keyword lists of the heuristics.    *)
(***************************************************************************)
CAREER_KEYWORDS ==
    {"career", "careers", "job", "jobs", "openings", "opportunities",
     "vacancy", "vacancies", "recruit", "join-us", "joinus", "work-with-us",
     "workwithus", "talent", "positions", "hiring"}

EXCLUDE_PATTERNS ==
    {"blog", "event", "events", "news", "press", "media", "article", "insight",
     "stories", "webinar", "podcast", "case-study", "casestudy", "whitepaper"}

RESTRICTED_DOMAINS ==
    {"facebook.com", "linkedin.com", "twitter.com", "instagram.com", "x.com",
     "youtube.com"}

\* the tracking parameters of canonicalize_url, beside the utm_ prefix
TRACKING_KEYS == {"gclid", "fbclid", "mc_cid", "mc_eid", "igshid"}

\* the URL keywords of looks_like_job_posting
POSTING_URL_KEYWORDS ==
    {"job", "jobs", "career", "careers", "opening", "opportunity", "position",
     "vacancy"}

\* the URL keywords of extract_job_links
JOB_LINK_KEYWORDS ==
    {"job", "jobs", "opening", "position", "opportunity", "careers", "vacancy",
     "gh_jid", "lever.co", "greenhouse.io", "workable.com",
     "smartrecruiters.com", "myworkdayjobs.com"}

(***************************************************************************)
(* Character-level facts about the words of the model.                     *)
(***************************************************************************)
\* str.lower() of a word
Lower(t) ==
    CASE t = "ACME.example" -> "acme.example"
      [] t = "UTM_medium" -> "utm_medium"
      [] t = "Careers" -> "careers"
      [] t = "Blog" -> "blog"
      [] t = "Jobs" -> "jobs"
      [] t = "About" -> "about"
      [] t = "Facebook.com" -> "facebook.com"
      [] t = "Apply" -> "apply"
      [] t = "JobPosting" -> "jobposting"
      [] t = "Organization" -> "organization"
      [] t = "JavaScript" -> "javascript"
      [] OTHER -> t

\* the keywords of the program's lists that are substrings of a lower-case word
Subs(t) ==
    CASE t = "facebook.com" -> {"facebook.com"}
      [] t = "www.facebook.com" -> {"facebook.com"}
      [] t = "linkedin.com" -> {"linkedin.com"}
      [] t = "x.com" -> {"x.com"}
      [] t = "box.com" -> {"x.com"}
      [] t = "jobs@acme.example" -> {"job", "jobs"}
      [] t = "jobs.lever.co" -> {"job", "jobs", "lever.co"}
      [] t = "careers" -> {"career", "careers"}
      [] t = "blog" -> {"blog"}
      [] t = "jobs" -> {"job", "jobs"}
      [] t = "careers-update" -> {"career", "careers"}
      [] t = "press" -> {"press"}
      [] t = "gh_jid" -> {"gh_jid"}
      [] t = "positions" -> {"positions", "position"}
      [] OTHER -> {}

\* the words w with w.startswith("http")
HttpWords == {"http", "https"}

\* the lower-case query keys k with k.startswith("utm_")
UtmKeys == {"utm_source", "utm_medium"}

\* urllib's unquote of '+' and %xx in a query key or value (parse_qsl)
Unquote(t) == IF t \in {"a%20b", "a+b"} THEN "a b" ELSE t

\* urllib's quote_plus of a query key or value (urlencode)
QuotePlus(t) == IF t = "a b" THEN "a+b" ELSE t

\* the words urlsplit takes for a scheme when a ":" follows
SchemeWords == {"http", "https", "ftp", "mailto"}

\* urllib.parse.uses_netloc, as far as the model's schemes go
UsesNetloc == {"http", "https", "ftp"}

\* urllib.parse.uses_relative, as far as the model's schemes go
UsesRelative == {"http", "https", "ftp"}

\* netloc.split(":")[0] of a host word
StripPort(h) == IF h = "acme.example:443" THEN "acme.example" ELSE h

(***************************************************************************)
(* Strings as token sequences.                                             *)
(***************************************************************************)
\* s.lower()
LowerStr(s) == [i \in 1..Len(s) |-> Lower(s[i])]

\* k in s, for a keyword k and a lower-case string s
In(k, s) == \E i \in 1..Len(s) : k \in Subs(s[i])

\* any(k in s for k in ks)
AnyIn(ks, s) == \E k \in ks : In(k, s)

\* the first index of s holding a token of ds, Len(s)+1 when there is none
Find(s, ds) ==
    IF \E i \in 1..Len(s) : s[i] \in ds
    THEN CHOOSE i \in 1..Len(s) : s[i] \in ds /\ \A j \in 1..(i-1) : s[j] \notin ds
    ELSE Len(s) + 1

\* s[i:] (1-based i)
From(s, i) == SubSeq(s, i, Len(s))

\* s.endswith("//")
EndsWithTwoSlashes(s) == Len(s) >= 2 /\ s[Len(s)] = "/" /\ s[Len(s)-1] = "/"

\* s.split(sep): the chunks of s between the separator tokens
RECURSIVE Split(_, _)
Split(s, sep) ==
    LET i == Find(s, {sep})
    IN  IF i > Len(s) THEN <<s>>
        ELSE <<SubSeq(s, 1, i-1)>> \o Split(From(s, i+1), sep)

RECURSIVE Concat(_)
Concat(ss) == IF ss = <<>> THEN <<>> ELSE Head(ss) \o Concat(Tail(ss))

(***************************************************************************)
(* urllib.parse, on token sequences.                                       *)
(***************************************************************************)
\* urlsplit, last step: the query is what follows the first "?"
split_query(scheme, netloc, rest, fragment) ==
    [scheme |-> scheme,
     netloc |-> netloc,
     path |-> SubSeq(rest, 1, Find(rest, {"?"}) - 1),
     query |-> From(rest, Find(rest, {"?"}) + 1),
     fragment |-> fragment]

\* urlsplit, third step: the fragment is what follows the first "#"
split_fragment(scheme, netloc, rest) ==
    split_query(scheme, netloc, SubSeq(rest, 1, Find(rest, {"#"}) - 1),
                From(rest, Find(rest, {"#"}) + 1))

\* urlsplit, second step: after "//" the netloc runs to the next "/", "?", "#"
split_netloc(scheme, rest) ==
    IF Len(rest) >= 2 /\ rest[1] = "/" /\ rest[2] = "/"
    THEN split_fragment(scheme,
                        SubSeq(rest, 3, Find(From(rest, 3), {"/", "?", "#"}) + 1),
                        From(rest, Find(From(rest, 3), {"/", "?", "#"}) + 2))
    ELSE split_fragment(scheme, <<>>, rest)

\* urlsplit: scheme (a lower-case word or ""), netloc, path, query, fragment
\* (sequences of tokens)
urlsplit(u) ==
    IF Len(u) >= 2 /\ u[2] = ":" /\ u[1] \in SchemeWords
    THEN split_netloc(Lower(u[1]), From(u, 3))
    ELSE split_netloc("", u)

\* urlunsplit
urlunsplit(scheme, netloc, path, query, fragment) ==
    LET withNet ==
            IF netloc # <<>>
               \/ (scheme \in UsesNetloc
                   /\ ~(Len(path) >= 2 /\ path[1] = "/" /\ path[2] = "/"))
            THEN <<"/", "/">> \o netloc
                 \o (IF path # <<>> /\ path[1] # "/" THEN <<"/">> ELSE <<>>)
                 \o path
            ELSE path
        withScheme == IF scheme # "" THEN <<scheme, ":">> \o withNet ELSE withNet
        withQuery == IF query # <<>> THEN withScheme \o <<"?">> \o query
                     ELSE withScheme
    IN  IF fragment # <<>> THEN withQuery \o <<"#">> \o fragment ELSE withQuery

\* one name=value chunk of a query as a <<key, value>> pair, unquoted
ParsePair(c) ==
    LET e == Find(c, {"="})
        k == SubSeq(c, 1, e - 1)
        v == From(c, e + 1)
    IN  <<IF k = <<>> THEN "" ELSE Unquote(k[1]),
          IF v = <<>> THEN "" ELSE Unquote(v[1])>>

\* parse_qsl(query, keep_blank_values=True): empty chunks are dropped
parse_qsl(query) ==
    LET chunks == SelectSeq(Split(query, "&"), LAMBDA c : c # <<>>)
    IN  [i \in 1..Len(chunks) |-> ParsePair(chunks[i])]

\* one pair of urlencode's output: key=value, both quoted
EncodePair(p) ==
    (IF p[1] = "" THEN <<>> ELSE <<QuotePlus(p[1])>>) \o <<"=">>
    \o (IF p[2] = "" THEN <<>> ELSE <<QuotePlus(p[2])>>)

\* urlencode(q, doseq=True)
RECURSIVE urlencode(_)
urlencode(q) ==
    IF q = <<>> THEN <<>>
    ELSE IF Len(q) = 1 THEN EncodePair(q[1])
    ELSE EncodePair(q[1]) \o <<"&">> \o urlencode(Tail(q))

(***************************************************************************)
(* UTILS: canonicalize_url, normalize_url, same_host.                      *)
(***************************************************************************)
\* the filter of canonicalize_url's loop: a tracking parameter is dropped
IsTracking(p) ==
    LET lk == Lower(p[1]) IN lk \in UtmKeys \/ lk \in TRACKING_KEYS

\* the end of canonicalize_url: one character is cut from a string that
\* ends with "//"
strip_slash(cleaned) ==
    IF EndsWithTwoSlashes(cleaned)
    THEN SubSeq(cleaned, 1, Len(cleaned) - 1)
    ELSE cleaned

\* canonicalize_url, from the parts urlsplit returns
canonicalize_parts(parts) ==
    strip_slash(urlunsplit(parts.scheme,
                           LowerStr(parts.netloc),
                           parts.path,
                           urlencode(SelectSeq(parse_qsl(parts.query),
                                               LAMBDA p : ~IsTracking(p))),
                           <<>>))

\* canonicalize_url.  urlsplit raises on no URL of the model, so the
\* except branch (return url) is never taken.
canonicalize_url(u) == canonicalize_parts(urlsplit(u))

\* the directory of a base path: the path up to its last "/", "/" for an
\* empty path
base_dir(path) ==
    IF \E i \in 1..Len(path) : path[i] = "/"
    THEN SubSeq(path, 1, CHOOSE i \in 1..Len(path) :
                            /\ path[i] = "/"
                            /\ \A j \in (i+1)..Len(path) : path[j] # "/")
    ELSE <<"/">>

\* segments[1:-1] = filter(None, segments[1:-1]) and the join: a relative
\* path loses its empty segments, all but the last
RECURSIVE collapse_slashes(_)
collapse_slashes(path) ==
    IF Len(path) < 2 THEN path
    ELSE IF path[1] = "/" /\ path[2] = "/" THEN collapse_slashes(Tail(path))
    ELSE <<path[1]>> \o collapse_slashes(Tail(path))

\* urljoin, from the parts of the base (b) and of the href (h)
urljoin_parts(base, href, b, h) ==
    IF h.scheme # "" /\ (h.scheme # b.scheme \/ h.scheme \notin UsesRelative)
    THEN href
    ELSE urlunsplit(b.scheme,
                    IF h.netloc # <<>> THEN h.netloc ELSE b.netloc,
                    CASE h.netloc # <<>> -> h.path
                      [] h.netloc = <<>> /\ h.path = <<>> -> b.path
                      [] h.netloc = <<>> /\ h.path # <<>> /\ h.path[1] = "/" -> h.path
                      [] OTHER -> collapse_slashes(base_dir(b.path) \o h.path),
                    IF h.netloc = <<>> /\ h.path = <<>> /\ h.query = <<>>
                    THEN b.query ELSE h.query,
                    h.fragment)

\* urljoin(base, href), for a base with a scheme and a netloc and an href
\* without "." and ".." segments: an href with a scheme of its own or with a
\* netloc, an href with no path (a query alone), an absolute path, and a
\* path relative to the directory of the base path
urljoin(base, href) ==
    IF base = <<>> THEN href
    ELSE IF href = <<>> THEN base
    ELSE urljoin_parts(base, href, urlsplit(base), urlsplit(href))

\* parsed._replace(fragment="").geturl()
without_fragment(parsed) ==
    urlunsplit(parsed.scheme, parsed.netloc, parsed.path, parsed.query, <<>>)

\* normalize_url(base, href)
normalize_url(base, href) ==
    without_fragment(urlsplit(canonicalize_url(urljoin(base, href))))

\* netloc.split(":")[0].lower()
host_of(netloc) == IF netloc = <<>> THEN "" ELSE Lower(StripPort(netloc[1]))

\* urlparse(a).netloc.split(":")[0].lower()
HostName(a) == host_of(urlsplit(a).netloc)

\* same_host(a, b)
same_host(a, b) == HostName(a) = HostName(b)

(***************************************************************************)
(* DISCOVERY: discover_career_pages, extract_job_links.  An anchor is a    *)
(* record of its href attribute and the words of its text.                 *)
(***************************************************************************)
\* the anchors both loops skip: an empty href, a fragment, a script
SkippedHref(href) ==
    \/ href = <<>>
    \/ href[1] = "#"
    \/ (Len(href) >= 2 /\ Lower(href[1]) = "javascript" /\ href[2] = ":")

\* the absolute URLs of the anchors a loop does not skip
anchor_urls(base, soup) ==
    {normalize_url(base, soup.anchors[i].href) :
        i \in {j \in 1..Len(soup.anchors) : ~SkippedHref(soup.anchors[j].href)}}

\* career_pages or {site_url}
or_site(career_pages, site_url) ==
    IF career_pages # {} THEN career_pages ELSE {site_url}

\* discover_career_pages(site_url, soup): txt is computed and never read
discover_career_pages(site_url, soup) ==
    or_site({full \in anchor_urls(site_url, soup) :
                /\ same_host(site_url, full)
                /\ AnyIn(CAREER_KEYWORDS, LowerStr(full))},
            site_url)

\* extract_job_links(career_url, soup)
extract_job_links(career_url, soup) ==
    {full \in anchor_urls(career_url, soup) :
        /\ ~AnyIn(EXCLUDE_PATTERNS, LowerStr(full))
        /\ AnyIn(JOB_LINK_KEYWORDS, LowerStr(full))}

(***************************************************************************)
(* The parts of the state a specification does not use stay at rest.       *)
(***************************************************************************)
\* the fetcher at rest, in the default configuration (line 25)
FetchIdle ==
    /\ ENABLE_JS_RENDER = FALSE
    /\ selenium_ready = FALSE
    /\ fp_url = <<>>
    /\ fp_pc = "idle"
    /\ fp_html = "None"
    /\ net_get = FALSE
    /\ net_render = FALSE

\* the canonicalizer not in use
CanonIdle ==
    /\ url = <<>>
    /\ once = "none"
    /\ twice = "none"

\* the classifier not in use
ClassIdle ==
    /\ jp_url = <<>>
    /\ jp_soup = [ld |-> <<>>, body |-> <<>>, anchors |-> <<>>]
    /\ jp_phrases = <<>>
    /\ jp_pc = "idle"
    /\ jp_result = FALSE

\* the discoverer not in use
DiscIdle ==
    /\ dc_site = <<>>
    /\ dc_soup = [ld |-> <<>>, body |-> <<>>, anchors |-> <<>>]
    /\ dc_pc = "idle"
    /\ dc_result = {}

\* the orchestrator not in use
CrawlIdle ==
    /\ pc = "idle"
    /\ sent_jobs = {}
    /\ store = [state |-> "absent", data |-> {}]
    /\ sink = <<>>
    /\ df = <<>>
    /\ row = 0
    /\ career_todo = {}
    /\ candidate_job_links = {}
    /\ link_todo = {}
    /\ seen_global = {}
    /\ new_count = 0
    /\ accepted = 0
    /\ visited = {}
    /\ failed_fetch = {}
    /\ retried = FALSE
    /\ failed_now = {}
    /\ pending = {}
    /\ last = [link |-> <<>>, what |-> "none", retry |-> FALSE]

(***************************************************************************)
(* HTTP FETCH: get_html, js_get_html, fetch_page.                          *)
(***************************************************************************)
\* url.startswith("http")
StartsWithHttp(u) == Len(u) > 0 /\ u[1] \in HttpWords

\* the two early returns of get_html: no GET is issued
get_html_refuses(u) ==
    \/ ~StartsWithHttp(u)
    \/ AnyIn(RESTRICTED_DOMAINS, LowerStr(u))

\* get_html(url), the server answering resp ("ok": 200 with a body, "empty":
\* 200 with an empty body, "fail": another status or a transport error):
\* whether the GET was issued, and the html returned ("" is the empty body)
get_html(u, resp) ==
    IF get_html_refuses(u) THEN [get |-> FALSE, html |-> "None"]
    ELSE [get |-> TRUE,
          html |-> CASE resp = "ok" -> "static"
                     [] resp = "empty" -> ""
                     [] OTHER -> "None"]

\* init_selenium_if_needed: selenium_ready after the call, the driver
\* starting (init_ok) or failing to start when a start is attempted
init_selenium_if_needed(js, ready, init_ok) ==
    IF ~js \/ ready THEN ready ELSE init_ok

\* js_get_html(url): selenium_ready after the call, whether driver.get was
\* issued, and the page source returned
js_get_html(u, js, ready, init_ok, render_ok) ==
    LET r == init_selenium_if_needed(js, ready, init_ok)
    IN  IF ~r THEN [ready |-> r, render |-> FALSE, html |-> "None"]
        ELSE [ready |-> r, render |-> TRUE,
              html |-> IF render_ok THEN "rendered" ELSE "None"]

\* fetch_page(url)
fetch_page(u, js, ready, resp, init_ok, render_ok) ==
    LET h == get_html(u, resp)
        j == js_get_html(u, js, ready, init_ok, render_ok)
    IN  IF h.html \notin {"None", ""}
        THEN [html |-> h.html, get |-> h.get, render |-> FALSE, ready |-> ready]
        ELSE IF js
        THEN [html |-> j.html, get |-> h.get, render |-> j.render, ready |-> j.ready]
        ELSE [html |-> "None", get |-> h.get, render |-> FALSE, ready |-> ready]

(***************************************************************************)
(* SpecFetch: calls of fetch_page, one URL after another, in a process     *)
(* started with dynamic rendering disabled or enabled.                     *)
(***************************************************************************)
FetchURLs ==
    {<<"https", ":", "/", "/", "acme.example", "/", "careers">>,
     <<"http", ":", "/", "/", "acme.example">>,
     <<"https", ":", "/", "/", "jobs.lever.co", "/", "acme">>,
     <<"https", ":", "/", "/", "box.com", "/", "jobs">>,
     <<"ftp", ":", "/", "/", "acme.example", "/", "jobs">>,
     <<"acme.example", "/", "careers">>,
     <<"https", ":", "/", "/", "facebook.com", "/", "acme">>,
     <<"https", ":", "/", "/", "Facebook.com", "/", "acme">>,
     <<"http", ":", "/", "/", "www.facebook.com", "/", "acme", "/", "jobs">>,
     <<"https", ":", "/", "/", "linkedin.com", "/", "jobs">>,
     <<"https", ":", "/", "/", "x.com", "/", "acme">>,
     <<"https", ":", "/", "/", "acme.example", "/", "jobs", "?", "gh_jid", "=", "7">>,
     <<"https", ":", "/", "/", "beta.example", "/", "jobs", "/", "7">>,
     <<"mailto", ":", "jobs@acme.example">>}

InitFetch ==
    /\ ENABLE_JS_RENDER \in BOOLEAN
    /\ selenium_ready = FALSE
    /\ fp_url \in FetchURLs
    /\ fp_pc = "call"
    /\ fp_html = "None"
    /\ net_get = FALSE
    /\ net_render = FALSE
    /\ CanonIdle
    /\ ClassIdle
    /\ DiscIdle
    /\ CrawlIdle

\* html = fetch_page(fp_url)
FetchPage ==
    /\ fp_pc = "call"
    /\ \E resp \in {"ok", "empty", "fail"}, init_ok \in BOOLEAN, render_ok \in BOOLEAN :
          LET r == fetch_page(fp_url, ENABLE_JS_RENDER, selenium_ready,
                              resp, init_ok, render_ok)
          IN  /\ fp_html' = r.html
              /\ net_get' = r.get
              /\ net_render' = r.render
              /\ selenium_ready' = r.ready
    /\ fp_pc' = "done"
    /\ UNCHANGED <<ENABLE_JS_RENDER, fp_url, canonVars, classVars, discVars, crawlVars>>

\* the caller goes on to its next URL
NextFetch ==
    /\ fp_pc = "done"
    /\ fp_url' \in FetchURLs
    /\ fp_pc' = "call"
    /\ fp_html' = "None"
    /\ net_get' = FALSE
    /\ net_render' = FALSE
    /\ UNCHANGED <<ENABLE_JS_RENDER, selenium_ready, canonVars, classVars, discVars, crawlVars>>

NextFetchSpec == FetchPage \/ NextFetch

SpecFetch == InitFetch /\ [][NextFetchSpec]_vars

\* the URL does not use the http or https scheme
NotHttpScheme(u) == urlsplit(u).scheme \notin {"http", "https"}

\* the registrable domain of a lower-case host
DomainOf(h) == IF h = "www.facebook.com" THEN "facebook.com" ELSE h

\* the URL's host is on the restricted-domain list
HostRestricted(u) ==
    LET n == LowerStr(urlsplit(u).netloc)
    IN  n # <<>> /\ DomainOf(n[1]) \in RESTRICTED_DOMAINS

\* C4: a URL that does not use an HTTP(S) scheme, or whose host is on the
\* restricted-domain list, never causes a network access by fetch_page:
\* neither the static GET nor the headless-browser render is issued for it,
\* with dynamic rendering disabled or enabled.
C4_RefusedNeverFetched ==
    (fp_pc = "done" /\ (NotHttpScheme(fp_url) \/ HostRestricted(fp_url)))
        => (~net_get /\ ~net_render)

(***************************************************************************)
(* JOB PAGE HEURISTICS: looks_like_job_posting.                            *)
(*                                                                         *)
(* A parsed page (soup) is a record: ld, the page's ld+json scripts in     *)
(* document order, each the "@type" of the object it holds or "invalid"    *)
(* for a script json.loads cannot parse; body, the words of get_text(" "); *)
(* anchors, the page's <a href> elements in document order.  A phrase is   *)
(* a sequence of words, and `s in body` holds when the words of s follow   *)
(* one another in body.                                                    *)
(***************************************************************************)
\* the signals list of looks_like_job_posting
SIGNALS ==
    {<<"apply", "now">>, <<"apply">>, <<"responsibilities">>,
     <<"requirements">>, <<"job", "description">>,
     <<"what", "you", "will", "do">>, <<"role", "&", "responsibilities">>,
     <<"position", "summary">>}

\* p in body, for a phrase p
Contains(body, p) ==
    \E i \in 1..(Len(body) - Len(p) + 1) : SubSeq(body, i, i + Len(p) - 1) = p

\* the loop over the ld+json scripts reaches a JobPosting object: a script
\* that does not parse raises, and the except clause ends the loop
FindsJobPosting(ld) ==
    \E i \in 1..Len(ld) :
        /\ Lower(ld[i]) = "jobposting"
        /\ \A j \in 1..(i-1) : ld[j] # "invalid"

\* looks_like_job_posting with the metadata test moved before the exclusion
\* test
looks_like_job_posting_MetadataFirst(soup, u0) ==
    LET u == LowerStr(u0)
        body == LowerStr(soup.body)
    IN  IF FindsJobPosting(soup.ld) THEN TRUE
        ELSE IF AnyIn(EXCLUDE_PATTERNS, u) THEN FALSE
        ELSE IF Cardinality({s \in SIGNALS : Contains(body, s)}) >= 2 THEN TRUE
        ELSE IF AnyIn(POSTING_URL_KEYWORDS, u) THEN TRUE
        ELSE FALSE

\* looks_like_job_posting(soup, url)
looks_like_job_posting(soup, u0) ==
    LET u == LowerStr(u0)
        body == LowerStr(soup.body)
    IN  IF AnyIn(EXCLUDE_PATTERNS, u) THEN FALSE
        ELSE IF FindsJobPosting(soup.ld) THEN TRUE
        ELSE IF Cardinality({s \in SIGNALS : Contains(body, s)}) >= 2 THEN TRUE
        ELSE IF AnyIn(POSTING_URL_KEYWORDS, u) THEN TRUE
        ELSE FALSE

(***************************************************************************)
(* SpecClassify: looks_like_job_posting applied to a page.                 *)
(***************************************************************************)
\* the phrases a page's text is written with: the signals, a signal in
\* capitals, and text that holds no signal
TextPhrases == SIGNALS \cup {<<"Apply">>, <<"about", "us">>, <<"our", "team">>}

ClassifyURLs ==
    {<<"https", ":", "/", "/", "acme.example", "/", "about">>,
     <<"https", ":", "/", "/", "acme.example", "/", "team", "/", "7">>,
     <<"https", ":", "/", "/", "acme.example", "/", "careers", "/", "123-engineer">>,
     <<"https", ":", "/", "/", "jobs.lever.co", "/", "acme">>,
     <<"https", ":", "/", "/", "acme.example", "/", "blog", "/", "careers-update">>,
     <<"https", ":", "/", "/", "acme.example", "/", "Blog", "/", "7">>,
     <<"https", ":", "/", "/", "acme.example", "/", "press">>,
     <<"https", ":", "/", "/", "acme.example", "/", "jobs", "?", "ref", "=", "press">>}

ClassifyLd ==
    {<<>>, <<"JobPosting">>, <<"Organization">>, <<"Organization", "jobposting">>,
     <<"invalid", "JobPosting">>}

InitClassify ==
    /\ jp_url \in ClassifyURLs
    /\ jp_phrases \in UNION {[1..n -> TextPhrases] : n \in 0..MaxPhrases}
    /\ \E ld \in ClassifyLd :
          jp_soup = [ld |-> ld, body |-> Concat(jp_phrases), anchors |-> <<>>]
    /\ jp_pc = "call"
    /\ jp_result = FALSE
    /\ CanonIdle
    /\ FetchIdle
    /\ DiscIdle
    /\ CrawlIdle

\* looks_like_job_posting(job_soup, link) (line 374)
Classify ==
    /\ jp_pc = "call"
    /\ jp_pc' = "done"
    /\ jp_result' = looks_like_job_posting(jp_soup, jp_url)
    /\ UNCHANGED <<jp_url, jp_soup, jp_phrases, canonVars, fetchVars, discVars, crawlVars>>

NextClassify == Classify

SpecClassify == InitClassify /\ [][NextClassify]_vars

\* the URL of the classified page holds an exclusion keyword
UrlExcluded == AnyIn(EXCLUDE_PATTERNS, LowerStr(jp_url))

\* the URL of the classified page holds a job-indicating keyword
UrlJobKeyword == AnyIn(POSTING_URL_KEYWORDS, LowerStr(jp_url))

\* the page embeds JobPosting structured metadata
HasJobPostingMetadata ==
    \E i \in 1..Len(jp_soup.ld) : Lower(jp_soup.ld[i]) = "jobposting"

\* the signal phrases the page's text was written with
PlacedSignals == {LowerStr(jp_phrases[i]) : i \in 1..Len(jp_phrases)} \cap SIGNALS

\* C6: exclusion precedence: a page whose URL holds an exclusion keyword is
\* never classified as a posting, whatever its metadata, its text and the
\* job keywords of its URL.
C6_ExclusionFirst ==
    (jp_pc = "done" /\ UrlExcluded) => jp_result = FALSE

\* C6's case: an excluded URL that also holds a job keyword, on a page with
\* JobPosting metadata and two signal phrases, has been classified
C6_Witness ==
    /\ jp_pc = "done"
    /\ jp_result = FALSE
    /\ UrlExcluded
    /\ UrlJobKeyword
    /\ FindsJobPosting(jp_soup.ld)
    /\ Cardinality(PlacedSignals) >= 2

\* C7: signal threshold: with no JobPosting metadata and a URL holding no
\* exclusion and no job keyword, a page whose text holds one signal phrase
\* p, and no other, is not a posting, for every p of the list; a page whose
\* text holds two distinct signal phrases is a posting.
C7_SignalThreshold ==
    (jp_pc = "done" /\ ~HasJobPostingMetadata /\ ~UrlExcluded /\ ~UrlJobKeyword)
        => /\ Cardinality(PlacedSignals) = 1 => jp_result = FALSE
           /\ Cardinality(PlacedSignals) >= 2 => jp_result = TRUE

(***************************************************************************)
(* SpecDiscover: discover_career_pages applied to a homepage.              *)
(***************************************************************************)
DiscoverHrefs ==
    {<<>>, <<"#", "top">>, <<"JavaScript", ":", "void">>,
     <<"/", "careers">>, <<"/", "about">>, <<"team", "?", "utm_source", "=", "x">>,
     <<"https", ":", "/", "/", "ACME.example", "/", "Jobs">>,
     <<"/", "/", "acme.example:443", "/", "positions">>,
     <<"https", ":", "/", "/", "beta.example", "/", "jobs">>,
     <<"https", ":", "/", "/", "beta.example", "/", "about">>}

DiscoverTexts == {<<"Careers">>, <<"About", "us">>}

DiscoverAnchors == [href : DiscoverHrefs, text : DiscoverTexts]

DiscoverSites ==
    {<<"https", ":", "/", "/", "acme.example">>,
     <<"https", ":", "/", "/", "ACME.example", "/", "home">>}

InitDiscover ==
    /\ dc_site \in DiscoverSites
    /\ \E as \in UNION {[1..n -> DiscoverAnchors] : n \in 0..MaxAnchors} :
          dc_soup = [ld |-> <<>>, body |-> <<>>, anchors |-> as]
    /\ dc_pc = "call"
    /\ dc_result = {}
    /\ CanonIdle
    /\ FetchIdle
    /\ ClassIdle
    /\ CrawlIdle

\* career_pages = discover_career_pages(site, home_soup) (line 355)
Discover ==
    /\ dc_pc = "call"
    /\ dc_pc' = "done"
    /\ dc_result' = discover_career_pages(dc_site, dc_soup)
    /\ UNCHANGED <<dc_site, dc_soup, canonVars, fetchVars, classVars, crawlVars>>

NextDiscover == Discover

SpecDiscover == InitDiscover /\ [][NextDiscover]_vars

\* the anchor's href is non-empty, not a fragment and not a script
UsableHref(a) ==
    /\ a.href # <<>>
    /\ a.href[1] # "#"
    /\ ~(Len(a.href) >= 2 /\ Lower(a.href[1]) = "javascript" /\ a.href[2] = ":")

\* the anchor's canonicalized URL
AnchorURL(a) == normalize_url(dc_site, a.href)

\* the membership rule of the claim: a usable href, on the homepage's host,
\* with a career keyword in the link text or in the URL
Qualifies(a) ==
    /\ UsableHref(a)
    /\ HostName(AnchorURL(a)) = HostName(dc_site)
    /\ \/ AnyIn(CAREER_KEYWORDS, LowerStr(a.text))
       \/ AnyIn(CAREER_KEYWORDS, LowerStr(AnchorURL(a)))

\* C9: career page membership: discover_career_pages keeps an anchor of the
\* homepage iff its href is usable, its canonicalized URL is on the
\* homepage's host, and its link text or its URL holds a career keyword; and
\* no off-host URL is ever returned.
C9_CareerPageMembership ==
    dc_pc = "done" =>
        /\ \A i \in 1..Len(dc_soup.anchors) :
              LET a == dc_soup.anchors[i]
              IN  Qualifies(a) <=> (UsableHref(a) /\ AnchorURL(a) \in dc_result)
        /\ \A p \in dc_result : HostName(p) = HostName(dc_site)

(***************************************************************************)
(* SpecCanon: canonicalize_url applied to a URL, and to its own result as  *)
(* the crawl loop does to a candidate link.                                *)
(***************************************************************************)
Slashes(n) == [i \in 1..n |-> "/"]

\* the input paths: "", "/a", "/careers/a", each with 0..MaxSlashes slashes after
InputPaths ==
    {p \o Slashes(n) : p \in {<<>>, <<"/", "a">>, <<"/", "careers", "/", "a">>},
                       n \in 0..MaxSlashes}

\* the query parameters an input URL is built from
InputParams ==
    {<<"utm_source", "=", "x">>, <<"UTM_medium", "=", "x">>,
     <<"gclid", "=", "1">>, <<"ref", "=", "1">>, <<"ref">>,
     <<"q", "=", "a%20b">>}

RECURSIVE JoinParams(_)
JoinParams(ps) ==
    IF ps = <<>> THEN <<>>
    ELSE IF Len(ps) = 1 THEN ps[1]
    ELSE ps[1] \o <<"&">> \o JoinParams(Tail(ps))

InputQueries ==
    {JoinParams(ps) : ps \in UNION {[1..n -> InputParams] : n \in 0..MaxParams}}

InputURLs ==
    {<<s, ":", "/", "/", h>> \o p
        \o (IF q = <<>> THEN <<>> ELSE <<"?">> \o q)
        \o (IF f = "" THEN <<>> ELSE <<"#", f>>) :
     s \in {"https", "http"},
     h \in {"acme.example", "ACME.example", "acme.example:443"},
     p \in InputPaths, q \in InputQueries, f \in {"", "top"}}

InitCanon ==
    /\ url \in InputURLs
    /\ once = "none"
    /\ twice = "none"
    /\ FetchIdle
    /\ ClassIdle
    /\ DiscIdle
    /\ CrawlIdle

\* link = canonicalize_url(url), as normalize_url does (line 155)
CanonicalizeOnce ==
    /\ once = "none"
    /\ once' = canonicalize_url(url)
    /\ UNCHANGED <<url, twice, fetchVars, classVars, discVars, crawlVars>>

\* link = canonicalize_url(link), as the crawl loop does (line 366)
CanonicalizeAgain ==
    /\ once # "none"
    /\ twice = "none"
    /\ twice' = canonicalize_url(once)
    /\ UNCHANGED <<url, once, fetchVars, classVars, discVars, crawlVars>>

NextCanon == CanonicalizeOnce \/ CanonicalizeAgain

SpecCanon == InitCanon /\ [][NextCanon]_vars

\* C8: canonicalization is idempotent: for every URL u,
\* canonicalize_url(canonicalize_url(u)) = canonicalize_url(u), so the
\* crawl loop's second canonicalization never changes the dedup key.
C8_Idempotent == twice # "none" => twice = once

(***************************************************************************)
(* PERSISTENCE and TELEGRAM: load_sent, save_sent, send_job.               *)
(*                                                                         *)
(* The file sent_jobs.json is a record: state is "absent", "valid" (it     *)
(* holds the JSON list data) or "corrupt" (it holds what a write that      *)
(* failed after open(..., "w") truncated it left behind).                  *)
(***************************************************************************)
\* load_sent(): the file read (read_ok) or the read raising
load_sent(file, read_ok) ==
    IF file.state = "valid" /\ read_ok THEN file.data ELSE {}

\* save_sent(s): the write succeeding ("ok"), open() raising ("unwritten"),
\* or json.dump raising after open() truncated the file ("truncated")
save_sent(file, s, outcome) ==
    CASE outcome = "ok" -> [state |-> "valid", data |-> s]
      [] outcome = "unwritten" -> file
      [] OTHER -> [state |-> "corrupt", data |-> {}]

\* send_job with sent_jobs.add(link) moved out of the try block: the link is
\* marked as sent whether or not the message was accepted
send_job_AddsOnFailure(sent, link, notify_ok, log_ok) ==
    [accepted |-> notify_ok, sent_jobs |-> sent \cup {link}]

\* send_job(..., link, ...): whether bot.send_message accepted the message,
\* and sent_jobs after the call.  An exception of send_message or of the
\* audit log append leaves the try block before sent_jobs.add(link).
send_job(sent, link, notify_ok, log_ok) ==
    [accepted |-> notify_ok,
     sent_jobs |-> IF notify_ok /\ log_ok THEN sent \cup {link} ELSE sent]

(***************************************************************************)
(* The seed list and the pages of the web the crawl runs over.             *)
(***************************************************************************)
AcmeHome == <<"https", ":", "/", "/", "acme.example">>

AcmeCareers == AcmeHome \o <<"/", "careers">>

AcmeJob == AcmeHome \o <<"/", "careers", "/", "123-engineer">>

BetaHome == <<"https", ":", "/", "/", "beta.example">>

BetaJob == BetaHome \o <<"/", "team", "/", "7", "?", "gh_jid", "=", "7">>

\* cleaned_file.csv: the second row's Website has no scheme
Seeds ==
    <<[company |-> "Acme", site |-> AcmeHome],
      [company |-> "NoScheme", site |-> <<"acme.example">>],
      [company |-> "Beta", site |-> BetaHome]>>

WebURLs == {AcmeHome, AcmeCareers, AcmeJob, BetaHome, BetaJob}

\* the page a URL of the web serves
Page(u) ==
    CASE u = AcmeHome ->
            [ld |-> <<>>, body |-> <<"about", "us">>,
             anchors |-> <<[href |-> <<"/", "careers">>, text |-> <<"Careers">>],
                           [href |-> <<"/", "about">>, text |-> <<"Jobs">>],
                           [href |-> <<"https", ":", "/", "/", "facebook.com", "/", "acme">>,
                            text |-> <<"facebook">>]>>]
      [] u = AcmeCareers ->
            [ld |-> <<>>, body |-> <<"our", "team">>,
             anchors |-> <<[href |-> <<"/", "careers", "/", "123-engineer", "?",
                                      "utm_source", "=", "x", "#", "top">>,
                            text |-> <<"backend", "engineer">>],
                           [href |-> <<"/", "blog", "/", "careers-update">>,
                            text |-> <<"Blog">>],
                           [href |-> <<"#", "top">>, text |-> <<"top">>]>>]
      [] u = AcmeJob ->
            [ld |-> <<"JobPosting">>, body |-> <<"backend", "engineer">>,
             anchors |-> <<>>]
      [] u = BetaHome ->
            [ld |-> <<>>, body |-> <<"about", "us">>,
             anchors |-> <<[href |-> <<"https", ":", "/", "/", "ACME.example", "/",
                                      "careers", "/", "123-engineer">>,
                            text |-> <<"partner">>],
                           [href |-> <<"team", "/", "7", "?", "gh_jid", "=", "7", "&",
                                      "utm_source", "=", "x">>,
                            text |-> <<"engineer">>]>>]
      [] u = BetaJob ->
            [ld |-> <<"Organization">>,
             body |-> <<"requirements", "our", "team", "responsibilities">>,
             anchors |-> <<>>]
      [] OTHER -> [ld |-> <<>>, body |-> <<>>, anchors |-> <<>>]

\* what the server of a URL may answer: a URL off the web is never served
Responses(u) == IF u \in WebURLs THEN {"ok", "fail"} ELSE {"fail"}

\* discover_career_pages(site, home_soup) for the homepages of the web (line 355)
career_pages_of == [u \in WebURLs |-> discover_career_pages(u, Page(u))]

\* extract_job_links(page, cs) for the pages of the web (line 363)
job_links_of == [u \in WebURLs |-> extract_job_links(u, Page(u))]

\* every candidate link a page of the web yields
AllCandidates == UNION {job_links_of[u] : u \in WebURLs}

\* link = canonicalize_url(link) for the candidate links (line 366)
canonical_of == [l \in AllCandidates |-> canonicalize_url(l)]

\* the links a pass can deliver
JobLinks == {canonical_of[l] : l \in AllCandidates}

\* looks_like_job_posting(job_soup, link) for the fetched links (line 374)
is_posting == [l \in JobLinks |-> looks_like_job_posting(Page(l), l)]

\* what a call of fetch_page(u) may do, over the answers of the server and
\* of the headless browser
FetchOutcomes(u, js, ready) ==
    {fetch_page(u, js, ready, resp, init_ok, render_ok) :
        resp \in Responses(u), init_ok \in BOOLEAN, render_ok \in BOOLEAN}

\* every URL a pass hands to fetch_page: the seeds' sites (line 350), their
\* career pages (line 360) and the canonical candidate links (line 372)
CrawlURLs ==
    {Seeds[i].site : i \in DOMAIN Seeds}
        \cup UNION {career_pages_of[u] : u \in DOMAIN career_pages_of}
        \cup JobLinks

\* FetchOutcomes, tabulated over CrawlURLs
fetch_outcomes ==
    [u \in CrawlURLs, js \in BOOLEAN, ready \in BOOLEAN |-> FetchOutcomes(u, js, ready)]

(***************************************************************************)
(* CRAWL: crawl_jobs_once, one action per loop iteration, and MAIN LOOP.   *)
(***************************************************************************)
NoLast == [link |-> <<>>, what |-> "none", retry |-> FALSE]

restVars == <<canonVars, classVars, discVars, fp_url, fp_pc, fp_html, net_get, net_render>>

\* a row that is given up with `return`: the pass ends there
skip_row_Returns(r) == [pc |-> "done", row |-> r]

\* a row that is given up with `continue` (lines 348 and 352): the loop goes
\* on with the next row
skip_row(r) == [pc |-> "row", row |-> r + 1]

\* the process starts: sent_jobs = load_sent() over no file yet (line 104),
\* dynamic rendering disabled or enabled (line 25)
Init ==
    /\ pc = "start"
    /\ store = [state |-> "absent", data |-> {}]
    /\ sent_jobs = load_sent(store, TRUE)
    /\ sink = [l \in JobLinks |-> 0]
    /\ df = <<>>
    /\ row = 0
    /\ career_todo = {}
    /\ candidate_job_links = {}
    /\ link_todo = {}
    /\ seen_global = {}
    /\ new_count = 0
    /\ accepted = 0
    /\ visited = {}
    /\ failed_fetch = {}
    /\ retried = FALSE
    /\ failed_now = {}
    /\ pending = {}
    /\ last = NoLast
    /\ ENABLE_JS_RENDER \in BOOLEAN
    /\ selenium_ready = FALSE
    /\ fp_url = <<>>
    /\ fp_pc = "idle"
    /\ fp_html = "None"
    /\ net_get = FALSE
    /\ net_render = FALSE
    /\ CanonIdle
    /\ ClassIdle
    /\ DiscIdle

\* crawl_jobs_once, lines 328-342: the seed list is read
StartPass ==
    /\ pc \in {"start", "done"}
    /\ pc' = "row"
    /\ df' = Seeds
    /\ row' = 1
    /\ new_count' = 0
    /\ seen_global' = {}
    /\ career_todo' = {}
    /\ candidate_job_links' = {}
    /\ link_todo' = {}
    /\ accepted' = 0
    /\ visited' = {}
    /\ failed_fetch' = {}
    /\ retried' = FALSE
    /\ pending' = failed_now
    /\ failed_now' = {}
    /\ last' = NoLast
    /\ UNCHANGED <<sent_jobs, store, sink, ENABLE_JS_RENDER, selenium_ready, restVars>>

\* crawl_jobs_once, lines 330-334: the seed list cannot be read and the pass
\* returns at once
CsvUnreadable ==
    /\ pc \in {"start", "done"}
    /\ pc' = "done"
    /\ df' = <<>>
    /\ row' = 0
    /\ new_count' = 0
    /\ seen_global' = {}
    /\ career_todo' = {}
    /\ candidate_job_links' = {}
    /\ link_todo' = {}
    /\ accepted' = 0
    /\ visited' = {}
    /\ failed_fetch' = {}
    /\ retried' = FALSE
    /\ pending' = {}
    /\ failed_now' = {}
    /\ last' = NoLast
    /\ UNCHANGED <<sent_jobs, store, sink, ENABLE_JS_RENDER, selenium_ready, restVars>>

\* one iteration of the loop over the rows, lines 344-355
CrawlRow ==
    /\ pc = "row"
    /\ row <= Len(df)
    /\ LET site == df[row].site
       IN  \E r \in fetch_outcomes[site, ENABLE_JS_RENDER, selenium_ready] :
                IF ~StartsWithHttp(site)
                THEN /\ row' = skip_row(row).row
                     /\ pc' = skip_row(row).pc
                     /\ career_todo' = {}
                     /\ UNCHANGED <<selenium_ready, failed_fetch>>
                ELSE IF r.html \in {"None", ""}
                THEN /\ row' = skip_row(row).row
                     /\ pc' = skip_row(row).pc
                     /\ career_todo' = {}
                     /\ selenium_ready' = r.ready
                     /\ failed_fetch' = {}
                ELSE /\ row' = row
                     /\ pc' = "career"
                     /\ career_todo' = career_pages_of[site]
                     /\ selenium_ready' = r.ready
                     /\ failed_fetch' = {}
    /\ visited' = visited \cup {row}
    /\ candidate_job_links' = {}
    /\ link_todo' = {}
    /\ last' = NoLast
    /\ UNCHANGED <<sent_jobs, store, sink, df, seen_global, new_count, accepted,
                   retried, failed_now, pending, ENABLE_JS_RENDER, restVars>>

\* one iteration of the loop over career_pages, lines 358-363, and the
\* loop's end
CrawlCareer ==
    /\ pc = "career"
    /\ IF career_todo = {}
       THEN /\ pc' = "link"
            /\ link_todo' = candidate_job_links
            /\ UNCHANGED <<career_todo, candidate_job_links, selenium_ready,
                           failed_fetch, retried>>
       ELSE \E page \in career_todo :
            \E r \in fetch_outcomes[page, ENABLE_JS_RENDER, selenium_ready] :
                  /\ career_todo' = career_todo \ {page}
                  /\ selenium_ready' = r.ready
                  /\ retried' = (retried \/ <<"career", page>> \in failed_fetch)
                  /\ IF r.html \in {"None", ""}
                     THEN /\ failed_fetch' = failed_fetch \cup {<<"career", page>>}
                          /\ UNCHANGED candidate_job_links
                     ELSE /\ candidate_job_links' =
                                candidate_job_links \cup job_links_of[page]
                          /\ UNCHANGED failed_fetch
                  /\ UNCHANGED <<pc, link_todo>>
    /\ last' = NoLast
    /\ UNCHANGED <<sent_jobs, store, sink, df, row, seen_global, new_count, accepted,
                   visited, failed_now, pending, ENABLE_JS_RENDER, restVars>>

\* the loop over candidate_job_links ends and the next row begins
NextRow ==
    /\ pc = "link"
    /\ link_todo = {}
    /\ pc' = "row"
    /\ row' = row + 1
    /\ failed_fetch' = {}
    /\ last' = NoLast
    /\ UNCHANGED <<sent_jobs, store, sink, df, career_todo, candidate_job_links,
                   link_todo, seen_global, new_count, accepted, visited, retried,
                   failed_now, pending, ENABLE_JS_RENDER, selenium_ready, restVars>>

\* one iteration of the loop over candidate_job_links, lines 365-385
CrawlLink ==
    /\ pc = "link"
    /\ \E l0 \in link_todo :
        LET link == canonical_of[l0]
        IN  /\ link_todo' = link_todo \ {l0}
            /\ IF link \in seen_global \/ link \in sent_jobs
               THEN /\ last' = [link |-> link, what |-> "dup", retry |-> link \in pending]
                    /\ UNCHANGED <<sent_jobs, store, sink, seen_global, new_count, accepted,
                                   failed_fetch, retried, failed_now, pending, selenium_ready>>
               ELSE \E r \in fetch_outcomes[link, ENABLE_JS_RENDER, selenium_ready] :
                        /\ selenium_ready' = r.ready
                        /\ retried' = (retried \/ <<"link", l0>> \in failed_fetch)
                        /\ IF r.html \in {"None", ""}
                           THEN /\ last' = [link |-> link, what |-> "nofetch",
                                            retry |-> link \in pending]
                                /\ failed_fetch' = failed_fetch \cup {<<"link", l0>>}
                                /\ UNCHANGED <<sent_jobs, store, sink, seen_global, new_count,
                                               accepted, failed_now, pending>>
                           ELSE IF ~is_posting[link]
                           THEN /\ last' = [link |-> link, what |-> "notjob",
                                            retry |-> link \in pending]
                                /\ UNCHANGED <<sent_jobs, store, sink, seen_global, new_count,
                                               accepted, failed_fetch, failed_now, pending>>
                           ELSE \E notify_ok \in BOOLEAN, log_ok \in BOOLEAN,
                                   save \in {"ok", "unwritten", "truncated"} :
                                LET s == send_job(sent_jobs, link, notify_ok, log_ok)
                                IN  /\ notify_ok => sink[link] < MaxDeliver
                                    /\ sink' = IF s.accepted
                                               THEN [sink EXCEPT ![link] = @ + 1]
                                               ELSE sink
                                    /\ sent_jobs' = s.sent_jobs
                                    /\ store' = save_sent(store, s.sent_jobs, save)
                                    /\ seen_global' = seen_global \cup {link}
                                    /\ new_count' = new_count + 1
                                    /\ accepted' = accepted + (IF s.accepted THEN 1 ELSE 0)
                                    /\ failed_now' = IF s.accepted THEN failed_now \ {link}
                                                     ELSE failed_now \cup {link}
                                    /\ pending' = pending \ {link}
                                    /\ last' = [link |-> link,
                                                what |-> IF s.accepted THEN "sent"
                                                         ELSE "notify_failed",
                                                retry |-> link \in pending]
                                    /\ UNCHANGED failed_fetch
    /\ UNCHANGED <<pc, df, row, career_todo, candidate_job_links, visited,
                   ENABLE_JS_RENDER, restVars>>

\* the loop over the rows ends, line 387: the pass prints its summary and
\* main sleeps
FinishPass ==
    /\ pc = "row"
    /\ row > Len(df)
    /\ pc' = "done"
    /\ last' = NoLast
    /\ UNCHANGED <<sent_jobs, store, sink, df, row, career_todo, candidate_job_links,
                   link_todo, seen_global, new_count, accepted, visited, failed_fetch,
                   retried, failed_now, pending, ENABLE_JS_RENDER, selenium_ready,
                   restVars>>

\* the process is restarted between two passes: the module is loaded again
\* and sent_jobs = load_sent() (line 104)
Restart ==
    /\ pc \in {"start", "done"}
    /\ \E read_ok \in BOOLEAN : sent_jobs' = load_sent(store, read_ok)
    /\ pc' = "start"
    /\ selenium_ready' = FALSE
    /\ df' = <<>>
    /\ row' = 0
    /\ new_count' = 0
    /\ seen_global' = {}
    /\ career_todo' = {}
    /\ candidate_job_links' = {}
    /\ link_todo' = {}
    /\ accepted' = 0
    /\ visited' = {}
    /\ failed_fetch' = {}
    /\ retried' = FALSE
    /\ pending' = {}
    /\ failed_now' = {}
    /\ last' = NoLast
    /\ UNCHANGED <<store, sink, ENABLE_JS_RENDER, restVars>>

\* the steps of a pass in progress
PassStep == CrawlRow \/ CrawlCareer \/ CrawlLink \/ NextRow \/ FinishPass

Next == StartPass \/ CsvUnreadable \/ PassStep \/ Restart

Spec == Init /\ [][Next]_vars

\* a pass in progress goes on: crawl_jobs_once is sequential code whose
\* every blocking call is bounded (REQUEST_TIMEOUT, the sleeps)
FairSpec == Spec /\ WF_vars(PassStep)

(***************************************************************************)
(* The properties of the crawl.                                            *)
(***************************************************************************)
\* the entries of the persisted dedup store
Persisted == store.data

\* C1: at-most-once delivery: over any sequence of passes over the same
\* pages, with failing notifications, audit log appends and store writes,
\* and restarts that reload the store, the notification sink accepts a
\* given canonical URL at most once.
C1_AtMostOnce == \A l \in DOMAIN sink : sink[l] <= 1

\* C2: a notification failure leaves the posting undelivered and retryable:
\* the step of the crawl loop in which the sink rejects the message for a
\* link adds the link neither to sent_jobs nor to the persisted store; and
\* when a later step of the next pass of the same process has the link among
\* its candidates again, the dedup test does not skip it: its page is
\* fetched and, if it is fetched and classifies as a posting, a new
\* delivery is attempted.
C2_FailureRetryable ==
    [][/\ last'.what = "notify_failed" =>
            /\ sent_jobs' = sent_jobs
            /\ last'.link \notin sent_jobs'
            /\ (last'.link \in Persisted' => last'.link \in Persisted)
       /\ last'.retry => last'.what \in {"nofetch", "notjob", "sent", "notify_failed"}
      ]_vars

\* C2's case: a link whose notification failed in the previous pass has been
\* attempted again
C2_Witness == last.retry /\ last.what \in {"sent", "notify_failed"}

\* C3: the dedup store is append-only: no step of a process removes a URL
\* from sent_jobs, and no step (a delivery, a save_sent that succeeds or
\* fails, a restart whose load_sent succeeds or fails) removes a URL from
\* the persisted store.
C3_AppendOnly ==
    [][/\ (pc' = "start" \/ sent_jobs \subseteq sent_jobs')
       /\ Persisted \subseteq Persisted'
      ]_vars

C10_CountAccurate == pc = "done" => new_count = accepted

====
